---- MODULE Spec2Model ----
(***************************************************************************)
(* ZnInit: managed attributes (zninit/descriptor/__init__.py) and the      *)
(* synthesized constructor (zninit/core/__init__.py).                      *)
(*                                                                         *)
(* Spec      a ZnInit type and one instance of it: construction through    *)
(*           the synthesized __init__, later attribute writes, disposal.   *)
(* SpecDesc  a plain class carrying one Descriptor and several instances   *)
(*           of it (the programs of tests/test_descriptor.py).             *)
(* SpecDecl  class declarations below ZnInit (ZnInit.__init_subclass__).   *)
(* SpecAlias a ZnInit type whose field has a mutable default, several      *)
(*           instances and in-place mutation of the values they hold.      *)
(* SpecBind  one Descriptor object attached to classes (__set_name__) and   *)
(*           used through instances of the class that declared it.         *)
(* SpecRepr  a ZnInit type with its representation options and one         *)
(*           instance: attribute writes and ZnInit.__repr__.               *)
(* SpecChain ParentCls(ZnInit) and ChildCls(ParentCls) as declared, and     *)
(*           construction of ChildCls through its synthesized __init__.    *)
(***************************************************************************)
EXTENDS Integers, Sequences, FiniteSets, TLC

VARIABLES cls, inst, frozen_tab, last, classes, heap, binding

vars == <<cls, inst, frozen_tab, last, classes, heap, binding>>

\* ------------------------------------------------------------------ bounds
NumInstances == 2
MaxPosArgs == 2
MaxVal == 2
MaxClasses == 3
MaxAppend == 2

\* ------------------------------------------------------------------ values
IntV(n) == [kind |-> "int", n |-> n]
NoneV == [kind |-> "None", n |-> 0]
\* zninit.Empty: "no default", distinct from None
Empty == [kind |-> "Empty", n |-> 0]
\* a key that is not in instance.__dict__
NoKey == [kind |-> "nokey", n |-> 0]
\* a list object: n is its identity, heap[n] what has been appended to it
ListV(ref) == [kind |-> "list", n |-> ref]
\* the list object written as default in the class body, and the one object
\* deepcopy makes of it when _get_auto_init_kwargs runs at class creation
DeclaredDefault == 1
CopiedDefault == 2
Refs == {DeclaredDefault, CopiedDefault}

\* copy.deepcopy as called once per defaulted field at class creation
deepcopy(value) == IF value = ListV(DeclaredDefault) THEN ListV(CopiedDefault) ELSE value

RECURSIVE InSeq(_, _)
InSeq(x, s) == IF s = <<>> THEN FALSE ELSE (Head(s) = x \/ InSeq(x, Tail(s)))

Range(s) == {s[k] : k \in 1..Len(s)}

\* ------------------------------------------------------------------ errors
NoError == [kind |-> "ok", name |-> "", prefix |-> <<>>, count |-> 0, noun |-> "", list |-> <<>>]

\* an exception whose text names one attribute or argument
RaiseFor(kind, name) == [NoError EXCEPT !.kind = kind, !.name = name]

\* ------------------------------------------------------------- Descriptor
\* Descriptor.__init__: the options of one managed attribute; kind is the
\* Descriptor subclass, annotation the owner's __annotations__ entry;
\* use_repr and repr_func at their defaults True and repr.
Descriptor(default, frozen, on_setattr, check_types, annotation, kind) ==
    [default |-> default, frozen |-> frozen, on_setattr |-> on_setattr,
     check_types |-> check_types, annotation |-> annotation, kind |-> kind,
     use_repr |-> TRUE, repr_func |-> "repr"]

\* on_setattr = lambda value: value + 1 raises on a value that is no number;
\* on_setattr = lambda value: value or 0 turns None into 0
on_setattr(hook, value) ==
    IF hook = "none" THEN [ok |-> TRUE, value |-> value]
    ELSE IF hook = "or_zero"
         THEN [ok |-> TRUE, value |-> IF value = NoneV THEN IntV(0) ELSE value]
    ELSE IF value.kind = "int" THEN [ok |-> TRUE, value |-> IntV(value.n + 1)]
    ELSE [ok |-> FALSE, value |-> value]

\* typeguard.check_type(value, expected_type): the annotation is int
check_type(value, expected_type) == expected_type = "int" => value.kind = "int"

\* Descriptor.annotation raises KeyError under check_types without annotation
annotation_raises(d) == d.check_types /\ d.annotation = "absent"

\* Descriptor.__set__ without its last two lines: the write is never recorded
\* in the _frozen table
Descriptor__set__never_freezes(T, st, name, value) ==
    LET d == T.desc[name]
        h == on_setattr(d.on_setattr, value)
    IN  IF name \in st.fz THEN [st EXCEPT !.err = RaiseFor("frozen", name)]
        ELSE IF ~h.ok THEN [st EXCEPT !.err = RaiseFor("on_setattr", name)]
        ELSE IF annotation_raises(d) THEN [st EXCEPT !.err = RaiseFor("annotation", name)]
        ELSE IF d.check_types /\ ~check_type(h.value, d.annotation)
             THEN [st EXCEPT !.err = RaiseFor("type", name)]
        ELSE [st EXCEPT !.dict = [st.dict EXCEPT ![name] = h.value]]

\* the variant of Descriptor.__set__ that type-checks the incoming value
\* instead of the result of on_setattr
Descriptor__set__checks_incoming(T, st, name, value) ==
    LET d == T.desc[name]
        h == on_setattr(d.on_setattr, value)
    IN  IF name \in st.fz THEN [st EXCEPT !.err = RaiseFor("frozen", name)]
        ELSE IF ~h.ok THEN [st EXCEPT !.err = RaiseFor("on_setattr", name)]
        ELSE IF annotation_raises(d) THEN [st EXCEPT !.err = RaiseFor("annotation", name)]
        ELSE IF d.check_types /\ ~check_type(value, d.annotation)
             THEN [st EXCEPT !.err = RaiseFor("type", name)]
        ELSE [st EXCEPT !.dict = [st.dict EXCEPT ![name] = h.value],
                        !.fz = IF d.frozen THEN st.fz \cup {name} ELSE st.fz]

\* the variant of Descriptor.__set__ that records the freeze before it
\* validates the value
Descriptor__set__freezes_first(T, st, name, value) ==
    LET d == T.desc[name]
        h == on_setattr(d.on_setattr, value)
        fz == IF d.frozen THEN st.fz \cup {name} ELSE st.fz
    IN  IF name \in st.fz THEN [st EXCEPT !.err = RaiseFor("frozen", name)]
        ELSE IF ~h.ok THEN [st EXCEPT !.err = RaiseFor("on_setattr", name), !.fz = fz]
        ELSE IF annotation_raises(d)
             THEN [st EXCEPT !.err = RaiseFor("annotation", name), !.fz = fz]
        ELSE IF d.check_types /\ ~check_type(h.value, d.annotation)
             THEN [st EXCEPT !.err = RaiseFor("type", name), !.fz = fz]
        ELSE [st EXCEPT !.dict = [st.dict EXCEPT ![name] = h.value], !.fz = fz]

\* Descriptor.__set__ on the instance whose __dict__ is st.dict and whose
\* entries in the descriptors' _frozen tables are st.fz
Descriptor__set__(T, st, name, value) ==
    LET d == T.desc[name]
        h == on_setattr(d.on_setattr, value)
    IN  IF name \in st.fz THEN [st EXCEPT !.err = RaiseFor("frozen", name)]
        ELSE IF ~h.ok THEN [st EXCEPT !.err = RaiseFor("on_setattr", name)]
        ELSE IF annotation_raises(d) THEN [st EXCEPT !.err = RaiseFor("annotation", name)]
        ELSE IF d.check_types /\ ~check_type(h.value, d.annotation)
             THEN [st EXCEPT !.err = RaiseFor("type", name)]
        ELSE [st EXCEPT !.dict = [st.dict EXCEPT ![name] = h.value],
                        !.fz = IF d.frozen THEN st.fz \cup {name} ELSE st.fz]

\* the variant of Descriptor.__get__ without the test for Empty
Descriptor__get__default(T, dict, name) ==
    [ok |-> TRUE, value |-> IF dict[name] = NoKey THEN T.desc[name].default ELSE dict[name]]

\* Descriptor.__get__ with an instance: the stored value, else the default;
\* Empty is never returned
Descriptor__get__(T, dict, name) ==
    LET value == IF dict[name] = NoKey THEN T.desc[name].default ELSE dict[name]
    IN  IF value = Empty THEN [ok |-> FALSE, value |-> Empty]
        ELSE [ok |-> TRUE, value |-> value]

\* check_descriptor_in_lst: isinstance against the allowed Descriptor classes
check_descriptor_in_lst(kind, descriptor_lst) ==
    \E allowed \in descriptor_lst : allowed = "Descriptor" \/ allowed = kind

\* get_descriptors: the names dir(cls) lists (sorted) of the matching kinds
get_descriptors(T, descriptor_lst) ==
    SelectSeq(T.names, LAMBDA n : check_descriptor_in_lst(T.desc[n].kind, descriptor_lst))

\* Descriptor.get_dict, called on the Descriptor class kind: the value every
\* attribute of that kind reads as; the first failing read raises
get_dict(T, kind, dict) ==
    LET names == get_descriptors(T, {kind})
        unset == SelectSeq(names, LAMBDA n : ~Descriptor__get__(T, dict, n).ok)
    IN  IF unset # <<>> THEN [ok |-> FALSE, name |-> unset[1], value |-> <<>>]
        ELSE [ok |-> TRUE, name |-> "",
              value |-> [n \in Range(names) |-> Descriptor__get__(T, dict, n).value]]

\* ------------------------------------------------- the synthesized __init__
Put(f, k, v) == [x \in (DOMAIN f) \cup {k} |-> IF x = k THEN v ELSE f[x]]

Pop(f, ks) == [x \in (DOMAIN f) \ ks |-> f[x]]

Event(ev, name, value, kw) == [ev |-> ev, name |-> name, value |-> value, kw |-> kw]

\* "Cls.__init__()" or "super(Cls, self).__init__()"
init_prefix(cls_name, uses_auto_init) ==
    IF uses_auto_init THEN <<cls_name, ".__init__()">>
    ELSE <<"super(", cls_name, ", self).__init__()">>

\* the variant of get_args_type_error that always words the synthesized case
get_args_type_error_one_wording(args, cls_name, uses_auto_init) ==
    [NoError EXCEPT !.kind = "args", !.prefix = init_prefix(cls_name, TRUE),
                    !.count = Len(args) + 1]

get_args_type_error(args, cls_name, uses_auto_init) ==
    [NoError EXCEPT !.kind = "args", !.prefix = init_prefix(cls_name, uses_auto_init),
                    !.count = Len(args) + 1]

\* "', '".join(keys)
RECURSIVE join(_)
join(keys) ==
    IF keys = <<>> THEN <<>>
    ELSE IF Len(keys) = 1 THEN <<keys[1]>>
    ELSE <<keys[1], "', '">> \o join(Tail(keys))

\* the variant of get_init_type_error that joins every name with "', '"
get_init_type_error_no_and(required_keys, cls_name, uses_auto_init) ==
    [NoError EXCEPT !.kind = "missing",
                    !.prefix = init_prefix(cls_name, uses_auto_init),
                    !.count = Len(required_keys),
                    !.noun = IF Len(required_keys) = 1 THEN "argument" ELSE "arguments",
                    !.list = <<"'">> \o join(required_keys) \o <<"'">>]

get_init_type_error(required_keys, cls_name, uses_auto_init) ==
    IF Len(required_keys) = 1
    THEN [NoError EXCEPT !.kind = "missing",
                         !.prefix = init_prefix(cls_name, uses_auto_init),
                         !.count = 1, !.noun = "argument",
                         !.list = <<"'", required_keys[1], "'">>]
    ELSE [NoError EXCEPT !.kind = "missing",
                         !.prefix = init_prefix(cls_name, uses_auto_init),
                         !.count = Len(required_keys), !.noun = "arguments",
                         !.list = <<"'">> \o join(SubSeq(required_keys, 1, Len(required_keys) - 1))
                                  \o <<"' and '", required_keys[Len(required_keys)], "'">>]

\* the loop of _handle_args from position idx on
RECURSIVE bind_args(_, _, _, _)
bind_args(args, kwargs, kwarg_names, idx) ==
    IF idx > Len(args) THEN [err |-> NoError, kwargs |-> kwargs]
    ELSE IF kwarg_names[idx] \in DOMAIN kwargs
         THEN [err |-> RaiseFor("multiple", kwarg_names[idx]), kwargs |-> kwargs]
    ELSE bind_args(args, Put(kwargs, kwarg_names[idx], args[idx]), kwarg_names, idx + 1)

handle_args(args, kwargs, kwarg_names, cls_name) ==
    IF Len(args) > Len(kwarg_names)
    THEN [err |-> [NoError EXCEPT !.kind = "too_many", !.prefix = <<cls_name, ".__init__()">>,
                                  !.count = Len(args), !.name = ""],
          kwargs |-> kwargs]
    ELSE bind_args(args, kwargs, kwarg_names, 1)

\* _get_auto_init_kwargs: the fields of the configured kinds, split by default
kwargs_no_default(T) ==
    SelectSeq(get_descriptors(T, T.init_descriptors), LAMBDA n : T.desc[n].default = Empty)

kwargs_with_default(T) ==
    SelectSeq(get_descriptors(T, T.init_descriptors), LAMBDA n : T.desc[n].default # Empty)

\* setattr(self, key, value) inside the constructor
setattr(T, st, key, value) ==
    Descriptor__set__(T, [st EXCEPT !.trace = Append(@, Event("setattr", key, value, {}))],
                      key, value)

\* the variant of priority_pass that walks the kwargs in dir() order instead of
\* the order of the priority list
RECURSIVE priority_pass_by_name(_, _, _)
priority_pass_by_name(T, p, keys) ==
    LET sorted == SelectSeq(T.names, LAMBDA n : InSeq(n, keys))
    IN  IF sorted = <<>> \/ p.st.err.kind # "ok" THEN p
        ELSE IF sorted[1] \in DOMAIN p.kwargs
             THEN priority_pass_by_name(T,
                      [st |-> setattr(T, p.st, sorted[1], p.kwargs[sorted[1]]),
                       kwargs |-> Pop(p.kwargs, {sorted[1]}),
                       priority_kwargs |-> Append(p.priority_kwargs, sorted[1])],
                      Tail(sorted))
        ELSE priority_pass_by_name(T, p, Tail(sorted))

\* for key in self._priority_kwargs_: if key in kwargs: setattr, pop, append
RECURSIVE priority_pass(_, _, _)
priority_pass(T, p, keys) ==
    IF keys = <<>> \/ p.st.err.kind # "ok" THEN p
    ELSE IF Head(keys) \in DOMAIN p.kwargs
         THEN priority_pass(T, [st |-> setattr(T, p.st, Head(keys), p.kwargs[Head(keys)]),
                                kwargs |-> Pop(p.kwargs, {Head(keys)}),
                                priority_kwargs |-> Append(p.priority_kwargs, Head(keys))],
                            Tail(keys))
    ELSE priority_pass(T, p, Tail(keys))

\* for key, value in init_kwargs.items(): setattr(self, key, value)
RECURSIVE write_pass(_, _, _, _)
write_pass(T, st, keys, init_kwargs) ==
    IF keys = <<>> \/ st.err.kind # "ok" THEN st
    ELSE write_pass(T, setattr(T, st, Head(keys), init_kwargs[Head(keys)]), Tail(keys), init_kwargs)

\* what hasattr(self, name) finds beside the type's own methods: ZnInit._post_init_
ZnInit_methods == {"_post_init_"}

post_init_names == <<"__post_init__", "_post_init_", "post_init">>

\* the variant of post_init_pass with a break after the first method found
RECURSIVE post_init_pass_first_only(_, _, _)
post_init_pass_first_only(T, st, names) ==
    IF names = <<>> THEN st
    ELSE IF Head(names) \in T.methods \cup ZnInit_methods
         THEN [st EXCEPT !.trace = Append(@, Event("post_init", Head(names), Empty, {}))]
    ELSE post_init_pass_first_only(T, st, Tail(names))

\* for post_init in [...]: if hasattr(self, post_init): getattr(self, post_init)()
RECURSIVE post_init_pass(_, _, _)
post_init_pass(T, st, names) ==
    IF names = <<>> THEN st
    ELSE IF Head(names) \in T.methods \cup ZnInit_methods
         THEN post_init_pass(T, [st EXCEPT !.trace = Append(@, Event("post_init", Head(names), Empty, {}))],
                             Tail(names))
    ELSE post_init_pass(T, st, Tail(names))

\* the keyword names the boundary's __init__ takes: ZnInit.__init__(self) none,
\* Parent.__init__(self, **kwargs) of tests/test_subclass_automatic.py "name"
super_init_accepts(T) == IF T.super_init = "Parent" THEN {"name"} ELSE {}

\* the closure get_auto_init made for the boundary class ParentCls, as it runs
\* on an instance of T: its own kwargs_no_default / kwargs_with_default,
\* super_init = ZnInit.__init__ and allow_args; _priority_kwargs_, the class
\* name, the post-init methods and self.__init__ are looked up on self
boundary_closure(T) ==
    [T EXCEPT !.names = T.super_init_names, !.super_init = "ZnInit", !.allow_args = TRUE]

RECURSIVE auto_init(_, _, _, _, _)

\* super_init(self, **kwargs): ZnInit.__init__, a hand-written Parent.__init__,
\* or the synthesized __init__ of the boundary class ParentCls
super_init(T, st, kwargs) ==
    LET called == [st EXCEPT !.trace = Append(@, Event("super_init", "", Empty, DOMAIN kwargs))]
        unexpected == (DOMAIN kwargs) \ super_init_accepts(T)
    IN  IF T.super_init = "ParentCls"
        THEN auto_init(boundary_closure(T),
                       [called EXCEPT !.trace = Append(@, Event("auto_init", "ParentCls", Empty,
                                                                 DOMAIN kwargs))],
                       <<>>, kwargs, T.uses_auto_init)
        ELSE IF unexpected # {}
        THEN [called EXCEPT !.err = [NoError EXCEPT !.kind = "unexpected",
                                                    !.name = CHOOSE k \in unexpected : TRUE]]
        ELSE called

\* required_keys after the loop over kwargs_no_default (lines 138-143)
required_keys_of(T, kwargs, priority_kwargs) ==
    SelectSeq(kwargs_no_default(T),
              LAMBDA n : n \notin DOMAIN kwargs /\ ~InSeq(n, priority_kwargs))

\* the variant of init_keys_of that leaves an omitted defaulted field to __get__
init_keys_of_supplied_only(T, kwargs) ==
    SelectSeq(kwargs_no_default(T) \o kwargs_with_default(T), LAMBDA n : n \in DOMAIN kwargs)

\* the keys of init_kwargs in insertion order: the required fields found in
\* kwargs, then every defaulted field (lines 138-147)
init_keys_of(T, kwargs) ==
    SelectSeq(kwargs_no_default(T), LAMBDA n : n \in DOMAIN kwargs) \o kwargs_with_default(T)

\* the variant of init_kwargs_of with kwargs.pop(name, None)
init_kwargs_of_pop_none(T, kwargs) ==
    [n \in Range(init_keys_of(T, kwargs)) |-> IF n \in DOMAIN kwargs THEN kwargs[n] ELSE NoneV]

\* init_kwargs: kwargs.pop(name) and kwargs.pop(name, value), value the copy
\* of the declared default made by _get_auto_init_kwargs
init_kwargs_of(T, kwargs) ==
    [n \in Range(init_keys_of(T, kwargs)) |->
        IF n \in DOMAIN kwargs THEN kwargs[n] ELSE deepcopy(T.desc[n].default)]

\* the variant of auto_init_bind that raises the missing fields before delegating
auto_init_bind_required_first(T, st, kwargs, priority_kwargs, uses_auto_init) ==
    LET required_keys == required_keys_of(T, kwargs, priority_kwargs)
        rest == Pop(kwargs, Range(kwargs_no_default(T)) \cup Range(kwargs_with_default(T)))
    IN  IF required_keys # <<>>
        THEN [st EXCEPT !.err = get_init_type_error(required_keys, T.name, uses_auto_init)]
        ELSE LET delegated == super_init(T, st, rest)
             IN  IF delegated.err.kind # "ok" THEN delegated
                 ELSE LET written == write_pass(T, delegated, init_keys_of(T, kwargs),
                                                init_kwargs_of(T, kwargs))
                      IN  IF written.err.kind # "ok" THEN written
                          ELSE post_init_pass(T, written, post_init_names)

\* the variant of auto_init_bind that hands every remaining named argument,
\* the fields included, to super_init
auto_init_bind_forwards_all(T, st, kwargs, priority_kwargs, uses_auto_init) ==
    LET required_keys == required_keys_of(T, kwargs, priority_kwargs)
        delegated == super_init(T, st, kwargs)
    IN  IF delegated.err.kind # "ok" THEN delegated
        ELSE IF required_keys # <<>>
             THEN [delegated EXCEPT !.err = get_init_type_error(required_keys, T.name, uses_auto_init)]
        ELSE LET written == write_pass(T, delegated, init_keys_of(T, kwargs),
                                       init_kwargs_of(T, kwargs))
             IN  IF written.err.kind # "ok" THEN written
                 ELSE post_init_pass(T, written, post_init_names)

\* the tail of auto_init, from the required-field loop on (lines 138-159)
auto_init_bind(T, st, kwargs, priority_kwargs, uses_auto_init) ==
    LET required_keys == required_keys_of(T, kwargs, priority_kwargs)
        rest == Pop(kwargs, Range(kwargs_no_default(T)) \cup Range(kwargs_with_default(T)))
        delegated == super_init(T, st, rest)
    IN  IF delegated.err.kind # "ok" THEN delegated
        ELSE IF required_keys # <<>>
             THEN [delegated EXCEPT !.err = get_init_type_error(required_keys, T.name, uses_auto_init)]
        ELSE LET written == write_pass(T, delegated, init_keys_of(T, kwargs),
                                       init_kwargs_of(T, kwargs))
             IN  IF written.err.kind # "ok" THEN written
                 ELSE post_init_pass(T, written, post_init_names)

\* auto_init(self, *args, **kwargs) on the fresh object st
auto_init(T, st, args, kwargs, uses_auto_init) ==
    LET p == priority_pass(T, [st |-> st, kwargs |-> kwargs, priority_kwargs |-> <<>>],
                           T.priority_kwargs)
    IN  IF p.st.err.kind # "ok" THEN p.st
        ELSE IF args # <<>> /\ ~T.allow_args
             THEN [p.st EXCEPT !.err = get_args_type_error(args, T.name, uses_auto_init)]
        ELSE LET h == handle_args(args, p.kwargs,
                                  kwargs_no_default(T) \o kwargs_with_default(T), T.name)
             IN  IF h.err.kind # "ok" THEN [p.st EXCEPT !.err = h.err]
                 ELSE auto_init_bind(T, p.st, h.kwargs, p.priority_kwargs, uses_auto_init)

\* object.__new__(cls): nothing in __dict__, in no _frozen table
NewObject(T) ==
    [dict |-> [n \in Range(T.names) |-> NoKey], fz |-> {}, err |-> NoError, trace |-> <<>>]

\* ----------------------------------------------------------------- __repr__
\* what ZnInit.__repr__ puts for a read that raised AttributeError
Placeholder == [kind |-> "<AttributeError>", n |-> 0]

\* descriptor.get_repr(value): repr itself, or a callable of the declaration
\* that raises
get_repr(repr_func, value) ==
    IF repr_func = "repr" THEN [raised |-> "", value |-> value]
    ELSE [raised |-> repr_func, value |-> value]

\* the try block of __repr__ for attribute n: getattr, then get_repr; of the
\* exceptions only AttributeError is caught
representation(T, dict, n) ==
    LET read == Descriptor__get__(T, dict, n)
        shown == get_repr(T.desc[n].repr_func, read.value)
    IN  IF ~read.ok \/ shown.raised = "AttributeError" THEN [raised |-> "", value |-> Placeholder]
        ELSE shown

\* ZnInit.__repr__: object.__repr__ without use_repr, else Cls(name=repr, ...)
\* over the constructor's attributes that have use_repr
ZnInit__repr__(T, dict) ==
    LET names == SelectSeq(get_descriptors(T, T.init_descriptors), LAMBDA n : T.desc[n].use_repr)
        raising == SelectSeq(names, LAMBDA n : representation(T, dict, n).raised # "")
    IN  IF ~T.use_repr THEN [err |-> NoError, cls_name |-> T.name, object_repr |-> TRUE, fields |-> <<>>]
        ELSE IF raising # <<>>
             THEN [err |-> RaiseFor(representation(T, dict, raising[1]).raised, raising[1]),
                   cls_name |-> T.name, object_repr |-> FALSE, fields |-> <<>>]
        ELSE [err |-> NoError, cls_name |-> T.name, object_repr |-> FALSE,
              fields |-> [k \in 1..Len(names) |->
                             [name |-> names[k], value |-> representation(T, dict, names[k]).value]]]

\* ------------------------------------------------------------------ types
\* class Cls(ZnInit) with the ZnInit class attributes at their defaults:
\* init_descriptors = [Descriptor], _priority_kwargs_ = None (no priority
\* pass, as for an empty list), allow_args = True, no post-init method of
\* its own, boundary ZnInit, and the synthesized __init__ as its own.
ZnInitType(name, names, desc) ==
    [name |-> name, names |-> names, desc |-> desc, init_descriptors |-> {"Descriptor"},
     priority_kwargs |-> <<>>, allow_args |-> TRUE, methods |-> {},
     super_init |-> "ZnInit", super_init_names |-> <<>>, uses_auto_init |-> TRUE,
     use_repr |-> TRUE]

Plain(default) == Descriptor(default, FALSE, "none", FALSE, "absent", "Descriptor")

\* every option combination of one attribute
DescriptorOptions ==
    {Descriptor(d, f, h, c[1], c[2], "Descriptor") :
        d \in {Empty, NoneV, IntV(5)}, f \in BOOLEAN, h \in {"none", "inc"},
        c \in {<<FALSE, "absent">>, <<TRUE, "int">>, <<TRUE, "absent">>}}

\* one attribute with any options, in the priority list or not
OneFieldTypes ==
    {[ZnInitType("OneField", <<"a">>, [n \in {"a"} |-> o]) EXCEPT !.priority_kwargs = p] :
        o \in DescriptorOptions, p \in {<<>>, <<"a">>}}

\* three attributes, each required or defaulted
ThreeFieldTypes ==
    {[ZnInitType("ThreeFields", <<"a", "b", "c">>,
                 [n \in {"a", "b", "c"} |-> Plain(IF n \in ds THEN IntV(7) ELSE Empty)])
        EXCEPT !.priority_kwargs = p] :
        ds \in SUBSET {"a", "b", "c"}, p \in {<<>>, <<"c", "a">>}}

\* tests/test_AutomaticInit.py PriorityKwargs, and the same with a and d defaulted
PriorityKwargsTypes ==
    {[ZnInitType("PriorityKwargs", <<"a", "b", "c", "d">>,
                 [n \in {"a", "b", "c", "d"} |-> Plain(IF n \in ds THEN IntV(7) ELSE Empty)])
        EXCEPT !.priority_kwargs = <<"a", "c", "b">>] :
        ds \in {{}, {"a", "d"}}}

\* tests/test_AutomaticInit.py PostInitA, PostInitB, PostInitC and their mixtures
PostInitTypes ==
    {[ZnInitType("PostInit", <<"a">>, [n \in {"a"} |-> Plain(Empty)]) EXCEPT !.methods = m] :
        m \in SUBSET {"__post_init__", "_post_init_", "post_init"}}

\* ChildPlainCls (allow_args=False), OnlyParamsInInit (init_descriptors = [Params]),
\* Child (boundary Parent), ChildClsInit (a hand-written __init__ forwarding to
\* the synthesized one), each with or without _priority_kwargs_ = ["b"]
ChildTypes ==
    {[ZnInitType("Child", <<"a", "b">>,
                 [n \in {"a", "b"} |->
                     IF n = "a" THEN Descriptor(Empty, FALSE, "none", FALSE, "absent", "Params")
                     ELSE Descriptor(Empty, FALSE, "none", FALSE, "absent", "Outs")])
        EXCEPT !.allow_args = aa, !.init_descriptors = ks, !.super_init = si,
               !.uses_auto_init = ua, !.priority_kwargs = p] :
        aa \in BOOLEAN, ks \in {{"Descriptor"}, {"Params"}}, si \in {"ZnInit", "Parent"},
        ua \in BOOLEAN, p \in {<<>>, <<"b">>}}

\* class Cls(ZnInit): a = Descriptor([]), frozen or not, prioritised or not
MutableDefaultTypes ==
    {[ZnInitType("MutableDefault", <<"a">>,
                 [n \in {"a"} |-> Descriptor(ListV(DeclaredDefault), f, "none", FALSE, "absent",
                                             "Descriptor")])
        EXCEPT !.priority_kwargs = p] :
        f \in BOOLEAN, p \in {<<>>, <<"a">>}}

\* class Cls(ZnInit, allow_args=False) with one required attribute
KeywordOnlyTypes ==
    {[T EXCEPT !.name = "KeywordOnly", !.allow_args = FALSE] :
        T \in {O \in OneFieldTypes : O.desc["a"].default = Empty /\ ~O.desc["a"].frozen}}

\* class Cls(ZnInit) with use_repr set or not and two attributes: a with its
\* use_repr and repr_func options, b plain
ReprTypes ==
    {[ZnInitType("Repr", <<"a", "b">>,
                 [n \in {"a", "b"} |->
                     IF n = "a" THEN [Plain(d) EXCEPT !.use_repr = u, !.repr_func = f]
                     ELSE Plain(Empty)])
        EXCEPT !.use_repr = r] :
        d \in {Empty, IntV(5)}, u \in BOOLEAN,
        f \in {"repr", "AttributeError", "ValueError"}, r \in BOOLEAN}

ZnInitTypes ==
    OneFieldTypes \cup ThreeFieldTypes \cup PriorityKwargsTypes \cup PostInitTypes \cup ChildTypes
        \cup KeywordOnlyTypes

\* one attribute with on_setattr = lambda value: value or 0
OrZeroTypes ==
    {ZnInitType("OneField", <<"a">>,
                [n \in {"a"} |-> Descriptor(Empty, f, "or_zero", c[1], c[2], "Descriptor")]) :
        f \in BOOLEAN, c \in {<<FALSE, "absent">>, <<TRUE, "int">>, <<TRUE, "absent">>}}

\* a class that is no ZnInit and carries one Descriptor (tests/test_descriptor.py)
PlainTypes == {T \in OneFieldTypes : T.priority_kwargs = <<>>} \cup OrZeroTypes

\* ------------------------------------------------------ class declarations
\* A class is its index in classes; 0 is object as a parent and None as a
\* boundary. defines_init: the class body holds an __init__; init: what
\* cls.__dict__ holds as __init__ after __init_subclass__ ("hand", "auto" or
\* "none"); basecls: the init_subclass_basecls the class body sets;
\* super_init: the class whose __init__ the synthesized one calls.
ZnInitClass == [parent |-> 0, defines_init |-> TRUE, basecls |-> 0, init |-> "hand",
                super_init |-> 0]

\* cls.__mro__ under single inheritance, object last
RECURSIVE mro(_, _)
mro(cs, c) == IF c = 0 THEN <<0>> ELSE <<c>> \o mro(cs, cs[c].parent)

\* inherited.__dict__.get("__init__") is not None; object has one
has_init(cs, c) == c = 0 \/ cs[c].init # "none"

\* getattr(inherited.__init__, "uses_auto_init", False)
uses_auto_init(cs, c) == c # 0 /\ cs[c].init = "auto"

\* the class attribute init_subclass_basecls as the instance sees it: the
\* first class of the mro that sets it, None when none does
RECURSIVE lookup_basecls(_, _)
lookup_basecls(cs, m) ==
    IF m = <<>> \/ Head(m) = 0 THEN 0
    ELSE IF cs[Head(m)].basecls # 0 THEN cs[Head(m)].basecls
    ELSE lookup_basecls(cs, Tail(m))

\* _init_subclass_basecls_, ZnInit when None
init_subclass_basecls(cs, c) ==
    IF lookup_basecls(cs, mro(cs, c)) = 0 THEN 1 ELSE lookup_basecls(cs, mro(cs, c))

\* the class that supplies c.__init__
RECURSIVE init_owner(_, _)
init_owner(cs, m) ==
    IF m = <<>> THEN 0 ELSE IF has_init(cs, Head(m)) THEN Head(m) ELSE init_owner(cs, Tail(m))

\* reaches_update_init with the walk starting at the parent of the new class
RECURSIVE reaches_update_init_from_parent(_, _, _)
reaches_update_init_from_parent(cs, m, basecls) ==
    LET walk == IF Head(m) = Len(cs) THEN Tail(m) ELSE m
    IN  IF Head(walk) = basecls THEN TRUE
        ELSE IF has_init(cs, Head(walk)) /\ ~uses_auto_init(cs, Head(walk)) THEN FALSE
        ELSE reaches_update_init_from_parent(cs, Tail(walk), basecls)

\* the loop of __init_subclass__ over the rest m of cls.__mro__: TRUE when it
\* goes on to _update_init, FALSE when it returns cls unchanged
RECURSIVE reaches_update_init(_, _, _)
reaches_update_init(cs, m, basecls) ==
    IF m = <<>> THEN TRUE
    ELSE IF Head(m) = basecls THEN TRUE
    ELSE IF has_init(cs, Head(m)) /\ ~uses_auto_init(cs, Head(m)) THEN FALSE
    ELSE reaches_update_init(cs, Tail(m), basecls)

\* ZnInit.__init_subclass__ on the class just created as the last of cs
init_subclass(cs) ==
    LET c == Len(cs)
        basecls == init_subclass_basecls(cs, c)
    IN  IF reaches_update_init(cs, mro(cs, c), basecls)
        THEN [cs EXCEPT ![c].init = "auto",
                        ![c].super_init = init_owner(cs, mro(cs, basecls))]
        ELSE cs

\* class C(parent): ... appended to cs and passed through __init_subclass__
declare(cs, parent, defines_init, basecls) ==
    init_subclass(Append(cs, [parent |-> parent, defines_init |-> defines_init,
                              basecls |-> basecls,
                              init |-> IF defines_init THEN "hand" ELSE "none",
                              super_init |-> 0]))

\* class ParentCls(ZnInit): a = Descriptor(..) [def __init__(self, **kwargs)]
\* class ChildCls(ParentCls): b = Descriptor(..) [init_subclass_basecls = ..]
\* (tests/test_AutomaticInit.py ParentCls / ChildCls, tests/test_subclass_automatic.py)
ParentCls == 2

ChildCls == 3

ChainClasses(defines_init, basecls) ==
    declare(declare(<<ZnInitClass>>, 1, defines_init, 0), ParentCls, FALSE, basecls)

\* ChildCls as the constructor sees it: dir(ChildCls) lists the inherited a
\* and the own b; super_init is the __init__ _update_init was handed
ChainType(cs, a, b, priority) ==
    LET owner == cs[ChildCls].super_init
    IN  [ZnInitType("ChildCls", <<"a", "b">>, [n \in {"a", "b"} |-> IF n = "a" THEN a ELSE b])
            EXCEPT !.priority_kwargs = priority,
                   !.super_init = IF owner = 1 THEN "ZnInit"
                                  ELSE IF cs[owner].init = "hand" THEN "Parent"
                                  ELSE "ParentCls",
                   !.super_init_names = IF owner = 1 THEN <<>> ELSE <<"a">>]

\* ------------------------------------------------------------ call inputs
AllKeys == <<"a", "b", "c", "d", "name", "q">>

KeyIndex(k) == CHOOSE j \in 1..Len(AllKeys) : AllKeys[j] = k

\* the value a call passes by name for key k, and as its j-th positional argument
KwValue(k) == IntV(KeyIndex(k))

PosValue(j) == IntV(Len(AllKeys) + j)

CallKeys(T) == Range(T.names) \cup {"q"} \cup super_init_accepts(T)

WriteValues == {IntV(n) : n \in 1..MaxVal} \cup {NoneV}

\* ------------------------------------------------------------------ state
NoCall == [op |-> "none", i |-> 0, name |-> "", value |-> Empty, args |-> <<>>,
           kwargs |-> <<>>, err |-> NoError, trace |-> <<>>, dict |-> <<>>, fz |-> {}]

Instances == 1..NumInstances

FrozenOf(i) == {n \in DOMAIN frozen_tab : i \in frozen_tab[n]}

InitState(types) ==
    /\ cls \in types
    /\ inst = [i \in Instances |-> [alive |-> FALSE, dict |-> NewObject(cls).dict]]
    /\ frozen_tab = [n \in Range(cls.names) |-> {}]
    /\ last = NoCall
    /\ classes = <<ZnInitClass>>
    /\ heap = [r \in Refs |-> 0]
    /\ binding = [owner |-> cls.name, name |-> IF cls.names = <<>> THEN "" ELSE cls.names[1]]

\* Cls(*args, **kwargs): a fresh object goes through __init__; when __init__
\* raises the object is never bound and its _frozen entries go with it
Construct(i, args, kwargs) ==
    /\ ~inst[i].alive
    /\ LET r == auto_init(cls, NewObject(cls), args, kwargs, cls.uses_auto_init)
       IN  /\ last' = [NoCall EXCEPT !.op = "init", !.i = i, !.args = args, !.kwargs = kwargs,
                                     !.err = r.err, !.trace = r.trace, !.dict = r.dict,
                                     !.fz = r.fz]
           /\ IF r.err.kind = "ok"
              THEN /\ inst' = [inst EXCEPT ![i] = [alive |-> TRUE, dict |-> r.dict]]
                   /\ frozen_tab' = [n \in DOMAIN frozen_tab |->
                                        IF n \in r.fz THEN frozen_tab[n] \cup {i}
                                        ELSE frozen_tab[n]]
              ELSE UNCHANGED <<inst, frozen_tab>>
    /\ UNCHANGED <<cls, classes, heap, binding>>

\* object.__new__(cls), or Cls() of a class without a constructor of its own
Allocate(i) ==
    /\ ~inst[i].alive
    /\ inst' = [inst EXCEPT ![i] = [alive |-> TRUE, dict |-> NewObject(cls).dict]]
    /\ last' = [NoCall EXCEPT !.op = "new", !.i = i]
    /\ UNCHANGED <<cls, frozen_tab, classes, heap, binding>>

\* instance.name = value
Write(i, name, value) ==
    /\ inst[i].alive
    /\ LET r == Descriptor__set__(cls, [dict |-> inst[i].dict, fz |-> FrozenOf(i), err |-> NoError],
                                  name, value)
       IN  /\ inst' = [inst EXCEPT ![i].dict = r.dict]
           /\ frozen_tab' = [n \in DOMAIN frozen_tab |->
                                IF n \in r.fz THEN frozen_tab[n] \cup {i} ELSE frozen_tab[n]]
           /\ last' = [NoCall EXCEPT !.op = "set", !.i = i, !.name = name, !.value = value,
                                     !.err = r.err, !.dict = inst[i].dict, !.fz = FrozenOf(i)]
    /\ UNCHANGED <<cls, classes, heap, binding>>

\* the instance is garbage: the WeakKeyDictionary entries keyed by it vanish
Destroy(i) ==
    /\ inst[i].alive
    /\ inst' = [inst EXCEPT ![i] = [alive |-> FALSE, dict |-> NewObject(cls).dict]]
    /\ frozen_tab' = [n \in DOMAIN frozen_tab |-> frozen_tab[n] \ {i}]
    /\ last' = [NoCall EXCEPT !.op = "del", !.i = i]
    /\ UNCHANGED <<cls, classes, heap, binding>>

Init == InitState(ZnInitTypes)

Next ==
    \/ \E n \in 0..MaxPosArgs, ks \in SUBSET CallKeys(cls) :
          Construct(1, [j \in 1..n |-> PosValue(j)], [k \in ks |-> KwValue(k)])
    \/ \E name \in Range(cls.names), value \in WriteValues : Write(1, name, value)
    \/ Destroy(1)

Spec == Init /\ [][Next]_vars

\* instance.name read through the descriptor
Read(i, name) ==
    /\ inst[i].alive
    /\ LET r == Descriptor__get__(cls, inst[i].dict, name)
       IN  last' = [NoCall EXCEPT !.op = "get", !.i = i, !.name = name, !.value = r.value,
                                  !.err = IF r.ok THEN NoError
                                          ELSE [NoError EXCEPT !.kind = "not_set", !.name = name,
                                                               !.prefix = <<cls.name, ".", name>>],
                                  !.dict = inst[i].dict, !.fz = FrozenOf(i)]
    /\ UNCHANGED <<cls, inst, frozen_tab, classes, heap, binding>>

\* Kind.get_dict(instance)
GetDict(i, kind) ==
    /\ inst[i].alive
    /\ LET r == get_dict(cls, kind, inst[i].dict)
       IN  last' = [NoCall EXCEPT !.op = "get_dict", !.i = i, !.kwargs = r.value,
                                  !.err = IF r.ok THEN NoError
                                          ELSE [NoError EXCEPT !.kind = "not_set", !.name = r.name,
                                                               !.prefix = <<cls.name, ".", r.name>>],
                                  !.dict = inst[i].dict, !.fz = FrozenOf(i)]
    /\ UNCHANGED <<cls, inst, frozen_tab, classes, heap, binding>>

InitDesc == InitState(PlainTypes)

NextDesc ==
    \/ \E i \in Instances : Allocate(i)
    \/ \E i \in Instances, name \in Range(cls.names), value \in WriteValues \cup {Empty} :
          Write(i, name, value)
    \/ \E i \in Instances, name \in Range(cls.names) : Read(i, name)
    \/ \E i \in Instances : GetDict(i, "Descriptor")
    \/ \E i \in Instances : Destroy(i)

SpecDesc == InitDesc /\ [][NextDesc]_vars

\* class C(parent): with or without an __init__ and an init_subclass_basecls
\* in its body
DeclareClass(parent, defines_init, basecls) ==
    /\ Len(classes) <= MaxClasses
    /\ classes' = declare(classes, parent, defines_init, basecls)
    /\ UNCHANGED <<cls, inst, frozen_tab, last, heap, binding>>

InitDecl == InitState({ZnInitType("ZnInit", <<>>, <<>>)})

NextDecl ==
    \E parent \in 1..Len(classes), defines_init \in BOOLEAN, basecls \in 0..Len(classes) :
        DeclareClass(parent, defines_init, basecls)

SpecDecl == InitDecl /\ [][NextDecl]_vars

\* ParentCls and ChildCls are declared, ChildCls got a synthesized __init__,
\* and instances of ChildCls are constructed
InitChain ==
    /\ \E defines_init \in BOOLEAN, basecls \in 0..ParentCls :
          classes = ChainClasses(defines_init, basecls)
    /\ classes[ChildCls].init = "auto"
    /\ \E da \in {Empty, IntV(7)}, db \in {Empty, IntV(8)}, fa \in BOOLEAN,
          p \in {<<>>, <<"b">>} :
          cls = ChainType(classes, Descriptor(da, fa, "none", FALSE, "absent", "Descriptor"),
                          Plain(db), p)
    /\ inst = [i \in Instances |-> [alive |-> FALSE, dict |-> NewObject(cls).dict]]
    /\ frozen_tab = [n \in Range(cls.names) |-> {}]
    /\ last = NoCall
    /\ heap = [r \in Refs |-> 0]
    /\ binding = [owner |-> cls.name, name |-> cls.names[1]]

NextChain ==
    \/ \E n \in 0..MaxPosArgs, ks \in SUBSET CallKeys(cls) :
          Construct(1, [j \in 1..n |-> PosValue(j)], [k \in ks |-> KwValue(k)])
    \/ Destroy(1)

SpecChain == InitChain /\ [][NextChain]_vars

\* instance.name.append(x): the list the attribute reads as grows in place
Mutate(i, name) ==
    /\ inst[i].alive
    /\ LET r == Descriptor__get__(cls, inst[i].dict, name)
       IN  /\ r.ok /\ r.value.kind = "list"
           /\ heap[r.value.n] < MaxAppend
           /\ heap' = [heap EXCEPT ![r.value.n] = @ + 1]
           /\ last' = [NoCall EXCEPT !.op = "append", !.i = i, !.name = name, !.value = r.value,
                                     !.dict = inst[i].dict, !.fz = FrozenOf(i)]
    /\ UNCHANGED <<cls, inst, frozen_tab, classes, binding>>

\* repr(instance)
Render(i) ==
    /\ inst[i].alive
    /\ LET r == ZnInit__repr__(cls, inst[i].dict)
       IN  last' = [NoCall EXCEPT !.op = "repr", !.i = i, !.err = r.err, !.trace = r.fields,
                                  !.name = IF r.object_repr THEN "object" ELSE r.cls_name,
                                  !.dict = inst[i].dict, !.fz = FrozenOf(i)]
    /\ UNCHANGED <<cls, inst, frozen_tab, classes, heap, binding>>

InitRepr == InitState(ReprTypes)

NextRepr ==
    \/ Allocate(1)
    \/ \E ks \in SUBSET Range(cls.names) : Construct(1, <<>>, [k \in ks |-> KwValue(k)])
    \/ \E name \in Range(cls.names), value \in WriteValues \cup {Empty} : Write(1, name, value)
    \/ Render(1)
    \/ Destroy(1)

SpecRepr == InitRepr /\ [][NextRepr]_vars

\* Descriptor.__set_name__(owner, name), as Python calls it for every class
\* body that holds the descriptor object under some name
Bind(owner, name) ==
    /\ binding' = [owner |-> owner, name |-> name]
    /\ last' = [NoCall EXCEPT !.op = "bind", !.name = name, !.trace = <<owner>>]
    /\ UNCHANGED <<cls, inst, frozen_tab, classes, heap>>

Owners == {"OneField", "Other"}

BindNames == {"a", "b"}

InitBind == InitState(PlainTypes)

\* reads and writes go to instance.__dict__[self.name]: they are followed
\* while the descriptor carries a name of the modelled class
NextBind ==
    \/ \E owner \in Owners, name \in BindNames : Bind(owner, name)
    \/ \E i \in Instances : Allocate(i)
    \/ \E i \in Instances, value \in WriteValues :
          binding.name \in Range(cls.names) /\ Write(i, binding.name, value)
    \/ \E i \in Instances : binding.name \in Range(cls.names) /\ Read(i, binding.name)
    \/ \E i \in Instances : Destroy(i)

SpecBind == InitBind /\ [][NextBind]_vars

InitAlias == InitState(MutableDefaultTypes)

NextAlias ==
    \/ \E i \in Instances, ks \in SUBSET Range(cls.names) :
          Construct(i, <<>>, [k \in ks |-> KwValue(k)])
    \/ \E i \in Instances, name \in Range(cls.names) : Mutate(i, name)
    \/ \E i \in Instances : Destroy(i)

SpecAlias == InitAlias /\ [][NextAlias]_vars

\* ------------------------------------------------------------------ claims
CtorFields == get_descriptors(cls, cls.init_descriptors)

\* the attribute names of the setattr calls of the last construction, in order
SetattrNames == [k \in 1..Len(SelectSeq(last.trace, LAMBDA e : e.ev = "setattr")) |->
                    SelectSeq(last.trace, LAMBDA e : e.ev = "setattr")[k].name]

\* C1: for a frozen attribute, a Write to an instance that already holds a
\* written value fails with the frozen error, whatever the value, and leaves
\* the stored value; a Write to an instance that holds none is never rejected
\* as frozen, and only instances holding a written value are in the table.
C1_FrozenPerInstance ==
    \A n \in Range(cls.names) :
        cls.desc[n].frozen =>
            /\ \A j \in Instances :
                  j \in frozen_tab[n] <=> (inst[j].alive /\ inst[j].dict[n] # NoKey)
            /\ (last.op = "set" /\ last.name = n) =>
                  IF last.dict[n] # NoKey
                  THEN last.err.kind = "frozen" /\ inst[last.i].dict[n] = last.dict[n]
                  ELSE last.err.kind # "frozen"

\* a second Write of the stored value itself was rejected while the other
\* instance holds another value of the same attribute
C1_Witness ==
    /\ cls.desc["a"].frozen
    /\ last.op = "set" /\ last.err.kind = "frozen"
    /\ on_setattr(cls.desc["a"].on_setattr, last.value).value = inst[last.i].dict["a"]
    /\ \E j \in Instances :
          /\ j # last.i /\ inst[j].alive
          /\ inst[j].dict["a"] \notin {NoKey, inst[last.i].dict["a"]}

\* C2: after a successful synthesized construction every frozen attribute of
\* the constructor is frozen for the instance and readable, and a Write to it
\* fails with the frozen error and leaves the value.
C2_FrozenAfterInit ==
    \A n \in Range(CtorFields) :
        cls.desc[n].frozen =>
            /\ (last.op = "init" /\ last.err.kind = "ok") =>
                  /\ last.i \in frozen_tab[n]
                  /\ Descriptor__get__(cls, inst[last.i].dict, n).ok
                  /\ inst[last.i].dict[n] = last.dict[n]
            /\ (last.op = "set" /\ last.name = n) =>
                  /\ last.err.kind = "frozen"
                  /\ inst[last.i].dict[n] = last.dict[n]
                  /\ Descriptor__get__(cls, inst[last.i].dict, n).value = last.dict[n]

\* a Write was rejected on a frozen attribute that still holds its default
C2_Witness ==
    /\ cls.desc["a"].frozen /\ cls.desc["a"].default = NoneV
    /\ last.op = "set" /\ last.name = "a" /\ last.err.kind = "frozen"
    /\ Descriptor__get__(cls, inst[last.i].dict, "a").value = NoneV

\* the required and the defaulted attributes of the constructor, by declaration
RequiredFields == SelectSeq(CtorFields, LAMBDA n : cls.desc[n].default = Empty)

DefaultedFields == SelectSeq(CtorFields, LAMBDA n : cls.desc[n].default # Empty)

\* the last operation constructed with every required attribute passed by name
\* and nothing else
RequiredOnlyCall ==
    /\ last.op = "init" /\ last.args = <<>>
    /\ DOMAIN last.kwargs = Range(RequiredFields)

\* the value the call gives attribute n: the named argument, else the default
Incoming(n) == IF n \in DOMAIN last.kwargs THEN last.kwargs[n] ELSE cls.desc[n].default

\* a first Write of value to descriptor d raises nothing
Accepts(d, value) ==
    /\ on_setattr(d.on_setattr, value).ok
    /\ ~annotation_raises(d)
    /\ d.check_types => check_type(on_setattr(d.on_setattr, value).value, d.annotation)

PositionalTargets == RequiredFields \o DefaultedFields

\* attribute n is given by the call neither by name nor by position
Omitted(n) ==
    /\ n \notin DOMAIN last.kwargs
    /\ \A j \in 1..Len(last.args) : j <= Len(PositionalTargets) => PositionalTargets[j] # n

OmittedRequired == SelectSeq(RequiredFields, Omitted)

\* positional arguments are allowed and bound to attributes not also named,
\* and the priority pass writes values their descriptors accept
ArgsBind ==
    /\ last.op = "init"
    /\ last.args # <<>> => cls.allow_args
    /\ Len(last.args) <= Len(PositionalTargets)
    /\ \A j \in 1..Len(last.args) : PositionalTargets[j] \notin DOMAIN last.kwargs
    /\ \A n \in Range(cls.priority_kwargs) \cap DOMAIN last.kwargs :
          Accepts(cls.desc[n], last.kwargs[n])

\* the named arguments that reach the boundary's constructor (no attribute of
\* the constructor, not taken by the priority pass) and that it does not take
RejectedKeys ==
    (DOMAIN last.kwargs)
        \ (Range(CtorFields) \cup Range(cls.priority_kwargs) \cup super_init_accepts(cls))

\* the call has no argument error of another kind
WellFormedCall == ArgsBind /\ RejectedKeys = {}

\* 'a' / 'a' and 'b' / 'a', 'b' and 'c' / ...
RECURSIVE CommaList(_)
CommaList(names) ==
    IF Len(names) = 1 THEN <<names[1]>>
    ELSE IF Len(names) = 2 THEN <<names[1], "' and '", names[2]>>
    ELSE <<names[1], "', '">> \o CommaList(Tail(names))

\* C4: a construction that omits the required attributes S (not empty) and
\* has no other argument error fails with the missing-required error whose
\* count is |S|, whose noun is singular exactly for |S| = 1 and whose list
\* names S once each, in required-list order, as 'a', 'b' and 'c'.
C4_MissingRequired ==
    (WellFormedCall /\ OmittedRequired # <<>>) =>
        /\ last.err.kind = "missing"
        /\ last.err.count = Len(OmittedRequired)
        /\ last.err.noun = IF Len(OmittedRequired) = 1 THEN "argument" ELSE "arguments"
        /\ last.err.list = <<"'">> \o CommaList(OmittedRequired) \o <<"'">>
        /\ ~inst[last.i].alive

\* three required attributes are missing, one required is bound by position
C4_Witness ==
    /\ WellFormedCall /\ Len(OmittedRequired) = 3 /\ Len(last.args) = 1
    /\ last.err.list = <<"'", "b", "', '", "c", "' and '", "d", "'">>

\* ---- C5
\* the priority attributes the call passes by name, in priority-list order
PrioritySupplied == SelectSeq(cls.priority_kwargs, LAMBDA n : n \in DOMAIN last.kwargs)

Delegated == \E k \in 1..Len(last.trace) : last.trace[k].ev = "super_init"

\* C7: a call that omits a required attribute and passes a named argument the
\* boundary's constructor rejects fails with the unexpected-keyword error; the
\* missing-required error is raised only after the delegation has returned.
C7_AncestorErrorFirst ==
    last.op = "init" =>
        /\ (ArgsBind /\ OmittedRequired # <<>> /\ RejectedKeys # {}) =>
              (last.err.kind = "unexpected" /\ last.err.name \in RejectedKeys)
        /\ last.err.kind = "missing" => (Delegated /\ RejectedKeys = {})

\* Cls(q=..) of a class with a required attribute: the error names q
C7_Witness ==
    /\ last.op = "init" /\ ArgsBind /\ Len(OmittedRequired) = 2
    /\ last.err.kind = "unexpected" /\ last.err.name = "q"

\* ---- C8
\* C8: in a construction no setattr precedes the call of the boundary's
\* constructor, and a construction that fails with the missing-required error
\* has written no attribute.
C8_DelegationBeforeWrites ==
    last.op = "init" =>
        /\ \A k \in 1..Len(last.trace) :
              last.trace[k].ev = "setattr" =>
                  \E j \in 1..(k - 1) : last.trace[j].ev = "super_init"
        /\ last.err.kind = "missing" => SetattrNames = <<>>

\* ---- C9
\* C9: a construction from named arguments writes each attribute at most once, a priority
\* attribute passed by name holds the result of its hook on the passed value
\* afterwards, and no construction fails with the frozen error.
C9_WrittenOnce ==
    (last.op = "init" /\ last.args = <<>>) =>
        /\ \A n \in Range(cls.names) :
              Cardinality({k \in 1..Len(SetattrNames) : SetattrNames[k] = n}) <= 1
        /\ last.err.kind = "ok" =>
              \A n \in Range(PrioritySupplied) :
                  last.dict[n] = on_setattr(cls.desc[n].on_setattr, last.kwargs[n]).value
        /\ last.err.kind # "frozen"

\* ---- C10
PostInitCalls == [k \in 1..Len(SelectSeq(last.trace, LAMBDA e : e.ev = "post_init")) |->
                     SelectSeq(last.trace, LAMBDA e : e.ev = "post_init")[k].name]

\* the post-init methods hasattr finds on the instance, in the fixed order
DefinedPostInit ==
    SelectSeq(post_init_names, LAMBDA m : m \in cls.methods \cup ZnInit_methods)

\* C10 as stated: a successful construction invokes exactly the first defined
\* of __post_init__, _post_init_, post_init, and none when none is defined.
C10_FirstHookOnly ==
    (last.op = "init" /\ last.err.kind = "ok") =>
        PostInitCalls = IF DefinedPostInit = <<>> THEN <<>> ELSE <<DefinedPostInit[1]>>

\* C10 amended: a successful construction invokes every defined one of
\* __post_init__, _post_init_, post_init, each once, in that order and after
\* the last attribute write; ZnInit defines _post_init_, so that one always
\* runs; a failed construction invokes none.
C10_EveryDefinedHook ==
    last.op = "init" =>
        /\ last.err.kind = "ok" =>
              /\ PostInitCalls = DefinedPostInit
              /\ InSeq("_post_init_", PostInitCalls)
              /\ \A j, k \in 1..Len(last.trace) :
                    (last.trace[j].ev = "post_init" /\ last.trace[k].ev # "post_init") => k < j
        /\ last.err.kind # "ok" => PostInitCalls = <<>>

\* a class defining __post_init__ and post_init ran all three
C10_Witness ==
    /\ last.op = "init" /\ last.err.kind = "ok"
    /\ cls.methods = {"__post_init__", "post_init"}
    /\ PostInitCalls = <<"__post_init__", "_post_init_", "post_init">>
    /\ SetattrNames = <<"a">>

\* ---- C6
Declared == 2..Len(classes)

\* the configured boundary of class c, ZnInit when none is configured
Boundary(c) == init_subclass_basecls(classes, c)

PositionIn(m, x) == CHOOSE k \in 1..Len(m) : m[k] = x

\* the ancestors strictly between c and its boundary
Between(c) ==
    LET m == mro(classes, c)
    IN  {m[k] : k \in 2..(PositionIn(m, Boundary(c)) - 1)}

HandWritten(x) == classes[x].defines_init

Synthesized(c) == classes[c].init = "auto"

\* C6 as stated: the ancestors strictly between the new type and the boundary
\* decide: a hand-written constructor among them means no synthesis and the
\* hand-written constructor in use, none among them means a synthesized
\* constructor that delegates to the boundary's constructor.
C6_DecidedByAncestors ==
    \A c \in Declared :
        InSeq(Boundary(c), mro(classes, c)) =>
            IF \E x \in Between(c) : HandWritten(x)
            THEN ~Synthesized(c)
            ELSE /\ Synthesized(c)
                 /\ classes[c].super_init = init_owner(classes, mro(classes, Boundary(c)))

\* C6 amended: the new type itself and the ancestors strictly between it and
\* the boundary decide: a hand-written constructor in the new type or among
\* them means no synthesis (the new type keeps what it defines), otherwise
\* the new type gets a synthesized constructor delegating to the boundary's.
C6_DecidedByTypeAndAncestors ==
    \A c \in Declared :
        InSeq(Boundary(c), mro(classes, c)) =>
            IF HandWritten(c) \/ \E x \in Between(c) : HandWritten(x)
            THEN /\ ~Synthesized(c)
                 /\ classes[c].init = IF HandWritten(c) THEN "hand" ELSE "none"
            ELSE /\ Synthesized(c)
                 /\ classes[c].super_init = init_owner(classes, mro(classes, Boundary(c)))

\* ChildPlainClsInit: its own __init__ below a synthesized parent, kept; and
\* Child of tests/test_subclass_automatic.py: synthesized, delegating to the
\* hand-written constructor of its boundary Parent
C6_Witness ==
    /\ \E c \in Declared :
          /\ HandWritten(c) /\ ~Synthesized(c) /\ Boundary(c) = 1
          /\ Between(c) # {} /\ \A x \in Between(c) : Synthesized(x)
    /\ \E c \in Declared :
          /\ Synthesized(c) /\ Boundary(c) # 1 /\ HandWritten(Boundary(c))
          /\ classes[c].super_init = Boundary(c)

\* ---- C11
\* the instances that hold a list for field n: those constructed without it
HoldsDefault(i, n) == inst[i].alive /\ inst[i].dict[n].kind = "list"

\* C11: the value an instance stores for an omitted defaulted field is an
\* object of its own, neither the declared default object nor the object any
\* other instance stores, and a construction that omits the field after
\* another instance's value was mutated still starts from the declared
\* contents.
C11_DefaultNotAliased ==
    \A n \in Range(CtorFields) :
        /\ \A i \in Instances :
              HoldsDefault(i, n) =>
                  /\ inst[i].dict[n] # cls.desc[n].default
                  /\ \A j \in Instances \ {i} :
                        HoldsDefault(j, n) => inst[j].dict[n] # inst[i].dict[n]
        /\ (last.op = "init" /\ last.err.kind = "ok" /\ n \notin DOMAIN last.kwargs) =>
              heap[last.dict[n].n] = heap[DeclaredDefault]

\* ---- C12
\* the named arguments of the call that passes the positional ones by name
AsNamed ==
    [k \in (DOMAIN last.kwargs) \cup {PositionalTargets[j] : j \in 1..Len(last.args)} |->
        IF k \in DOMAIN last.kwargs THEN last.kwargs[k]
        ELSE last.args[CHOOSE j \in 1..Len(last.args) : PositionalTargets[j] = k]]

\* a write of the constructor was rejected by the attribute
WriteRejected == last.err.kind \in {"frozen", "on_setattr", "annotation", "type"}

\* C12: with positional arguments permitted, a call whose positional arguments
\* outnumber the fields fails with the argument-count error; otherwise the
\* i-th positional argument goes to the i-th of the required-then-defaulted
\* names, so that when the call succeeds the call that passes the same values
\* by name succeeds with the same field values; and with a required field left
\* unsupplied the call fails with the missing-required error.
C12_PositionalAsNamed ==
    (last.op = "init" /\ cls.allow_args /\ last.args # <<>> /\ ~WriteRejected) =>
        IF Len(last.args) > Len(PositionalTargets)
        THEN last.err.kind = "too_many" /\ last.err.count = Len(last.args)
        ELSE (\A j \in 1..Len(last.args) : PositionalTargets[j] \notin DOMAIN last.kwargs) =>
                 LET named == auto_init(cls, NewObject(cls), <<>>, AsNamed, cls.uses_auto_init)
                 IN  /\ last.err.kind = "ok" => (named.err.kind = "ok" /\ named.dict = last.dict)
                     /\ (OmittedRequired # <<>> /\ RejectedKeys = {}) => last.err.kind = "missing"

\* ---- C13
\* the positions whose target attribute the call also passes by name
Collisions ==
    {j \in 1..Len(last.args) : j <= Len(PositionalTargets) /\ PositionalTargets[j] \in DOMAIN last.kwargs}

\* the priority pass writes values their descriptors accept
PriorityAccepted ==
    \A n \in Range(cls.priority_kwargs) \cap DOMAIN last.kwargs : Accepts(cls.desc[n], last.kwargs[n])

\* C13: a call whose positional arguments are permitted and fit the fields,
\* and one of which is bound to a field the call also passes by name, fails
\* with the multiple-values error for the first such field, in the priority
\* list or not.
C13_MultipleValues ==
    (/\ last.op = "init" /\ cls.allow_args /\ Len(last.args) <= Len(PositionalTargets)
     /\ Collisions # {} /\ PriorityAccepted) =>
        /\ last.err.kind = "multiple"
        /\ \E j \in Collisions :
              /\ last.err.name = PositionalTargets[j]
              /\ \A k \in Collisions : j <= k

\* ---- C14
ArgsErrorPrefix ==
    IF cls.uses_auto_init THEN <<cls.name, ".__init__()">>
    ELSE <<"super(", cls.name, ", self).__init__()">>

\* C14 as stated: a type that forbids positional arguments rejects every call
\* with n >= 1 of them with the argument-count error "takes 1 positional
\* argument but n+1 were given", prefixed Type.__init__() under the
\* synthesized constructor and super(Type, self).__init__() under a
\* hand-written one that delegates.
C14_ArgsRejected ==
    (last.op = "init" /\ ~cls.allow_args /\ last.args # <<>>) =>
        /\ last.err.kind = "args"
        /\ last.err.count = Len(last.args) + 1
        /\ last.err.prefix = ArgsErrorPrefix

\* C14 amended: the priority pass runs first; when one of its writes is
\* rejected by the attribute the call fails with that error, otherwise with
\* the argument-count error as stated.
C14_ArgsRejectedAfterPriority ==
    (last.op = "init" /\ ~cls.allow_args /\ last.args # <<>>) =>
        IF PriorityAccepted
        THEN /\ last.err.kind = "args"
             /\ last.err.count = Len(last.args) + 1
             /\ last.err.prefix = ArgsErrorPrefix
        ELSE WriteRejected /\ last.err.name \in Range(cls.priority_kwargs)

\* ChildClsInit called with two positional arguments
C14_Witness ==
    /\ last.op = "init" /\ ~cls.allow_args /\ ~cls.uses_auto_init
    /\ Len(last.args) = 2
    /\ last.err.kind = "args" /\ last.err.count = 3
    /\ last.err.prefix = <<"super(", cls.name, ", self).__init__()">>

\* ---- C15
NoHooks == \A n \in Range(cls.names) : cls.desc[n].on_setattr = "none"

\* C15: for an instance just constructed by a type whose attributes have no
\* on_set hook (the claim covers hooks as well), the map GetDict returns for
\* the constructor's attribute kind, passed as named arguments to a fresh
\* construction, succeeds and gives an instance with the same map.
C15_RoundTrip ==
    (last.op = "init" /\ last.err.kind = "ok" /\ NoHooks) =>
        \A kind \in cls.init_descriptors :
            LET d == get_dict(cls, kind, last.dict)
            IN  d.ok =>
                    LET again == auto_init(cls, NewObject(cls), <<>>, d.value, cls.uses_auto_init)
                    IN  /\ again.err.kind = "ok"
                        /\ get_dict(cls, kind, again.dict) = d

\* ---- C16
\* reading or rendering attribute n of the rendered instance fails
RenderFails(n) ==
    \/ ~Descriptor__get__(cls, last.dict, n).ok
    \/ cls.desc[n].repr_func # "repr"

ShownFields == SelectSeq(CtorFields, LAMBDA n : cls.desc[n].use_repr)

\* C16: repr(instance) never raises; with the representation enabled it has
\* one entry per shown attribute, the placeholder where reading or rendering
\* the value fails and the rendered value elsewhere.
C16_RenderTotal ==
    last.op = "repr" =>
        /\ last.err.kind = "ok"
        /\ cls.use_repr =>
              /\ last.name = cls.name
              /\ Len(last.trace) = Len(ShownFields)
              /\ \A k \in 1..Len(ShownFields) :
                    /\ last.trace[k].name = ShownFields[k]
                    /\ last.trace[k].value =
                          IF RenderFails(ShownFields[k]) THEN Placeholder
                          ELSE Descriptor__get__(cls, last.dict, ShownFields[k]).value

\* ---- C17
\* C17: once the attribute is bound its owner and name never change: a Bind
\* with another owner or name fails and leaves them, and no other operation
\* touches them.
C17_BoundOnce ==
    [][binding.owner # "" =>
          /\ binding' = binding
          /\ (last'.op = "bind" /\ <<last'.trace[1], last'.name>> # <<binding.owner, binding.name>>)
                => last'.err.kind # "ok"]_vars

\* ---- C18
\* what the read of attribute n resolves to: the stored value, else the default
Resolved(n) == IF last.dict[n] = NoKey THEN cls.desc[n].default ELSE last.dict[n]

\* C18: a Read returns the stored value if there is one and the declared
\* default otherwise, except that Unset is never returned: when that value
\* is Unset the Read fails with the not-set error naming the instance's type
\* and the field; and no value of a GetDict result is Unset.
C18_ReadNeverUnset ==
    /\ last.op = "get" =>
          IF Resolved(last.name) = Empty
          THEN /\ last.err.kind = "not_set"
               /\ last.err.prefix = <<cls.name, ".", last.name>>
          ELSE last.err.kind = "ok" /\ last.value = Resolved(last.name)
    /\ last.op = "get_dict" =>
          IF \E n \in Range(cls.names) : Resolved(n) = Empty
          THEN last.err.kind = "not_set" /\ Resolved(last.err.name) = Empty
          ELSE /\ last.err.kind = "ok"
               /\ DOMAIN last.kwargs = Range(cls.names)
               /\ \A n \in DOMAIN last.kwargs : last.kwargs[n] = Resolved(n) /\ last.kwargs[n] # Empty

\* a Read of an attribute with a default after Unset itself was written to it
C18_Witness ==
    /\ last.op = "get" /\ last.dict[last.name] = Empty
    /\ cls.desc[last.name].default # Empty
    /\ last.err.kind = "not_set"

\* ---- C19
\* the named arguments super_init was called with
DelegatedKeys == (CHOOSE e \in Range(last.trace) : e.ev = "super_init").kw

\* the attributes of the type that the constructor does not manage
OtherAttributes == Range(cls.names) \ Range(CtorFields)

\* the call reaches the delegation: its positional arguments are permitted,
\* fit and collide with no name, and the priority writes are accepted
ReachesDelegation ==
    /\ last.args # <<>> => cls.allow_args
    /\ Len(last.args) <= Len(PositionalTargets)
    /\ Collisions = {}
    /\ PriorityAccepted

\* C19 as stated: super_init receives exactly the named arguments that are
\* no field of the configured kinds; an attribute of another kind passed by
\* name makes the call fail with the ancestor's unexpected-keyword error, and
\* left out it is still unset after the construction.
C19_SuperInitKeywords ==
    last.op = "init" =>
        /\ Delegated => DelegatedKeys = (DOMAIN last.kwargs) \ Range(CtorFields)
        /\ \A n \in OtherAttributes :
              /\ (n \in DOMAIN last.kwargs /\ ReachesDelegation) =>
                    /\ last.err.kind = "unexpected"
                    /\ last.err.name \in (DOMAIN last.kwargs) \ Range(CtorFields)
              /\ (n \notin DOMAIN last.kwargs /\ last.err.kind = "ok") =>
                    ~Descriptor__get__(cls, last.dict, n).ok

\* C19 amended: the names of the priority list are taken out of the named
\* arguments and written first, fields of the configured kinds or not;
\* super_init receives exactly the named arguments that are neither such a
\* name nor a field of the configured kinds. An attribute of another kind
\* that is not in the priority list, passed by name, makes the call fail
\* with the ancestor's unexpected-keyword error; one that is in the priority
\* list is written with the value passed; left out, either is still unset
\* after the construction.
C19_SuperInitKeywordsAfterPriority ==
    last.op = "init" =>
        LET consumed == Range(CtorFields) \cup Range(cls.priority_kwargs)
        IN  /\ Delegated => DelegatedKeys = (DOMAIN last.kwargs) \ consumed
            /\ \A n \in OtherAttributes :
                  /\ (n \in DOMAIN last.kwargs /\ ReachesDelegation /\ n \notin consumed) =>
                        /\ last.err.kind = "unexpected"
                        /\ last.err.name \in (DOMAIN last.kwargs) \ consumed
                  /\ (n \in DOMAIN last.kwargs /\ last.err.kind = "ok") =>
                        /\ n \in consumed
                        /\ Descriptor__get__(cls, last.dict, n).value = last.kwargs[n]
                  /\ (n \notin DOMAIN last.kwargs /\ last.err.kind = "ok") =>
                        ~Descriptor__get__(cls, last.dict, n).ok

\* OnlyParamsInInit below Parent, called with its field, the attribute of the
\* other kind and the keyword Parent takes
C19_Witness ==
    /\ last.op = "init" /\ cls.init_descriptors = {"Params"} /\ cls.priority_kwargs = <<>>
    /\ DOMAIN last.kwargs = {"a", "b", "name"}
    /\ Delegated /\ DelegatedKeys = {"b", "name"}
    /\ last.err.kind = "unexpected" /\ last.err.name = "b"

\* ---- C20
\* C20: a Write to a field frozen for the instance fails as frozen before
\* anything else is looked at. Otherwise the hook runs first (its failure is
\* the error of the Write), then its result is validated when check_types is
\* set (the annotation must exist and admit the result), then the result is
\* stored and read back, then the field is frozen for the instance if
\* declared frozen; a Write that fails stores and freezes nothing.
C20_WriteOrder ==
    last.op = "set" =>
        LET d == cls.desc[last.name]
            h == on_setattr(d.on_setattr, last.value)
            i == last.i
            untouched == inst[i].dict = last.dict /\ FrozenOf(i) = last.fz
        IN  IF last.name \in last.fz THEN last.err.kind = "frozen" /\ untouched
            ELSE IF ~h.ok THEN last.err.kind = "on_setattr" /\ untouched
            ELSE IF d.check_types /\ d.annotation = "absent"
                 THEN last.err.kind = "annotation" /\ untouched
            ELSE IF d.check_types /\ d.annotation = "int" /\ h.value.kind # "int"
                 THEN last.err.kind = "type" /\ untouched
            ELSE /\ last.err.kind = "ok"
                 /\ inst[i].dict[last.name] = h.value
                 /\ h.value # Empty => Descriptor__get__(cls, inst[i].dict, last.name).value = h.value
                 /\ (last.name \in FrozenOf(i)) = d.frozen

\* None written to a frozen, type-checked int attribute whose hook turns it
\* into 0: the incoming value would not pass the check, the result does
C20_Witness ==
    /\ last.op = "set" /\ last.err.kind = "ok" /\ last.value = NoneV
    /\ cls.desc[last.name].check_types /\ cls.desc[last.name].annotation = "int"
    /\ cls.desc[last.name].frozen
    /\ inst[last.i].dict[last.name] = IntV(0)
    /\ last.name \in FrozenOf(last.i)

\* ---------------------------------------------------------------- C21
\* a Write step that raised, for any of the four causes
FailedWrite(l) == l.op = "set" /\ l.err.kind \in {"frozen", "on_setattr", "annotation", "type"}

\* C21: a Write that fails (frozen check, on_setattr raising, missing
\* annotation under check_types, type mismatch) leaves every stored value and
\* every frozen mark of the instance as they were before the call; and a Write
\* that follows a rejected Write to a field still not frozen succeeds whenever
\* its value is one the descriptor accepts.
C21_FailedWriteChangesNothing ==
    [][/\ FailedWrite(last') => inst' = inst /\ frozen_tab' = frozen_tab
       /\ (/\ FailedWrite(last) /\ last.err.kind # "frozen"
           /\ last'.op = "set" /\ last'.i = last.i /\ last'.name = last.name
           /\ Accepts(cls.desc[last.name], last'.value))
          => /\ last'.err.kind = "ok"
             /\ inst'[last.i].dict[last.name]
                    = on_setattr(cls.desc[last.name].on_setattr, last'.value).value]_vars

\* a first Write to a frozen attribute was rejected for its type and the
\* attribute is neither stored nor frozen
C21_Witness ==
    /\ last.op = "set" /\ last.err.kind = "type"
    /\ cls.desc[last.name].frozen
    /\ last.name \notin FrozenOf(last.i)
    /\ inst[last.i].dict[last.name] = NoKey

\* ---------------------------------------------------------------- C22
\* the class whose __init__ is the constructor of ChildCls's boundary
BoundaryInitOwner ==
    init_owner(classes, mro(classes, init_subclass_basecls(classes, ChildCls)))

\* how many events of the last construction satisfy Test
CountEvents(Test(_)) == Len(SelectSeq(last.trace, Test))

\* the last step constructed a ChildCls instance successfully
ChildConstructed == last.op = "init" /\ last.err.kind = "ok" /\ Len(classes) = ChildCls

\* the order in which positional arguments are matched to fields
PositionalNames == kwargs_no_default(cls) \o kwargs_with_default(cls)

\* the synthesized constructor of ChildCls took both the inherited and the own
\* field: each holds the value passed for it, else its default
BindsAllFields ==
    \A n \in Range(cls.names) :
        n \notin Range(cls.priority_kwargs) =>
            inst[last.i].dict[n] =
                IF n \in DOMAIN last.kwargs THEN last.kwargs[n]
                ELSE IF PositionIn(PositionalNames, n) <= Len(last.args)
                     THEN last.args[PositionIn(PositionalNames, n)]
                ELSE cls.desc[n].default

\* one delegation, to the boundary's constructor, no synthesized constructor
\* of an ancestor, one write per field outside the priority list
DelegatesOnceWritesOnce ==
    /\ CountEvents(LAMBDA e : e.ev = "super_init") = 1
    /\ CountEvents(LAMBDA e : e.ev = "auto_init") = 0
    /\ \A n \in Range(cls.names) \ Range(cls.priority_kwargs) :
          CountEvents(LAMBDA e : e.ev = "setattr" /\ e.name = n) = 1

\* C22 as stated: when the ancestors of a type up to its boundary have
\* synthesized or no constructors, one successful construction through the
\* type's synthesized constructor binds the fields of the type and of those
\* ancestors, invokes the boundary's constructor exactly once, runs no
\* ancestor's synthesized constructor and writes each field outside the
\* priority list exactly once.
C22_DelegatesDirectly ==
    ChildConstructed => BindsAllFields /\ DelegatesOnceWritesOnce

\* what the constructions of ChildCls do: with a hand-written constructor in
\* the boundary (ZnInit's own included) they delegate once and write once.
\* When the boundary's constructor is itself synthesized it is the one
\* delegated to: it runs once, calls ZnInit.__init__ in turn, reports every
\* required field of the boundary as missing, so construction succeeds only
\* when the boundary's fields all have defaults, and writes each of them once
\* before the constructor of ChildCls writes all fields.
SynthesizedBoundaryRunsToo ==
    /\ (ChildConstructed /\ classes[BoundaryInitOwner].init = "hand")
          => BindsAllFields /\ DelegatesOnceWritesOnce
    /\ (ChildConstructed /\ classes[BoundaryInitOwner].init = "auto")
          => /\ BindsAllFields
             /\ CountEvents(LAMBDA e : e.ev = "auto_init") = 1
             /\ CountEvents(LAMBDA e : e.ev = "super_init") = 2
             /\ \A n \in Range(cls.super_init_names) : cls.desc[n].default # Empty
             /\ \A n \in Range(cls.names) \ Range(cls.priority_kwargs) :
                   CountEvents(LAMBDA e : e.ev = "setattr" /\ e.name = n) =
                       IF n \in Range(cls.super_init_names) THEN 2 ELSE 1
    /\ (/\ last.op = "init" /\ Len(classes) = ChildCls
        /\ classes[BoundaryInitOwner].init = "auto"
        /\ \E n \in Range(cls.super_init_names) : cls.desc[n].default = Empty)
          => last.err.kind # "ok"

====
